---- MODULE Spec2Model ----
(***************************************************************************)
(* A state-machine model of openblu.py, the OpenBlu command line client.   *)
(* One run of the program is one behaviour: get_platform, setup_args and   *)
(* then the branch of openblu() chosen by the parsed arguments.            *)
(*                                                                         *)
(* Python values: None is the string "None"; a string or None is truthy    *)
(* when it is neither None nor "".  exit(x) is recorded by its argument x; *)
(* an exception that no handler catches is recorded by its type.           *)
(***************************************************************************)
EXTENDS Integers, Sequences, FiniteSets, TLC

\* ------------------------------------------------------------- bounds ---
MaxServers == 3      \* longest servers list a list response carries
MaxLimit == 3        \* largest --limit tried
MaxStamp == 2        \* last_updated timestamps are 1..MaxStamp

\* ---------------------------------------------------------- constants ---
None == "None"
NoFile == "<no file>"

\* File names in the working directory: openblu.key and <id>.ovpn.
KeyFile == <<"openblu", ".key">>
OvpnFile(id) == <<id, ".ovpn">>

SYSTEMS == {"Linux", "Windows"}

ERROR_CODES == [c \in {300, 400, 500} |->
                  IF c = 300 THEN "PLATFORM_INVALID"
                  ELSE IF c = 400 THEN "NETWORK_ACCESS_FAILED"
                  ELSE "UNKNOWN_ERROR"]

\* The platforms platform.system() may report, the supported ones and one more.
Platforms == SYSTEMS \cup {"Darwin"}

\* The id of the server at each position of a list response.
IdSeq == <<"s1", "s2", "s3", "s4", "s5">>
ServerIds == {IdSeq[i] : i \in 1..MaxServers}
Countries == {"japan"}
Keys == {"k1"}
Configs == {"", "client\ndev tun", "remote 1.2.3.4"}
ResponseCodes == {200, 404, 500}

Truthy(v) == v \notin {None, ""}

\* The argument of exit(): an integer or a string.
IntArg(n) == [type |-> "int", int |-> n, str |-> ""]
StrArg(s) == [type |-> "str", int |-> 0, str |-> s]

Running == [kind |-> "running", arg |-> IntArg(0)]
Returned == [kind |-> "returned", arg |-> IntArg(0)]
Exit(arg) == [kind |-> "exit", arg |-> arg]
Raised(type) == [kind |-> "exception", arg |-> StrArg(type)]

\* The status the process ends with: 0 when the script runs to its end; after
\* exit(arg) an integer arg is the status, any other arg is printed and the
\* status is 1; an uncaught exception prints a traceback and the status is 1.
ExitStatus(r) ==
  IF r.kind = "returned" THEN 0
  ELSE IF r.kind = "exit" /\ r.arg.type = "int" THEN r.arg.int
  ELSE 1

\* A ServerSummary, reduced to the two fields the program decides on.
NoServer == [id |-> None, last_updated |-> 0]
Unbound == [id |-> "<unbound>", last_updated |-> 0]

\* The servers arrays a list response may carry: up to MaxServers entries,
\* the i-th with id IdSeq[i] and any timestamp.
ServerLists ==
  UNION {{[i \in 1..n |-> [id |-> IdSeq[i], last_updated |-> f[i]]] :
            f \in [1..n -> 1..MaxStamp]} : n \in 0..MaxServers}

\* What one requests.post + json.loads may produce.
NoEnvelope == [success |-> FALSE, response_code |-> 0, servers |-> <<>>]
ListEnvelopes ==
  {[success |-> TRUE, response_code |-> 200, servers |-> l] : l \in ServerLists}
  \cup {[success |-> FALSE, response_code |-> c, servers |-> <<>>] :
          c \in ResponseCodes \ {200}}

NoTuple == <<>>     \* filter_by = None, the default of fetch_servers
Absent == "<absent>"   \* a key post_data does not hold

GetEnvelopes ==
  {[success |-> TRUE, response_code |-> 200, has_id |-> h,
    server |-> [id |-> i, ovpn_configuration |-> t]] :
      i \in ServerIds, t \in Configs, h \in BOOLEAN}
  \cup {[success |-> FALSE, response_code |-> c, has_id |-> FALSE,
          server |-> [id |-> None, ovpn_configuration |-> None]] :
          c \in ResponseCodes}
NoGetEnvelope == [success |-> FALSE, response_code |-> 0, has_id |-> FALSE,
                  server |-> [id |-> None, ovpn_configuration |-> None]]

\* requests.post then json.loads: the transport fails, the body is not JSON,
\* or the body parses to an envelope.
Outcomes == {"ok", "transport_error", "bad_json"}

\* The Namespace before parse_args() ran, and the ones it may return.
NoArgs == [key |-> None, connect_best |-> FALSE, country |-> None,
           fetch_servers |-> FALSE, info |-> None, filter_by |-> None,
           filter |-> None, order_by |-> None, sort_by |-> None,
           verbose |-> FALSE, limit |-> 5, set_access_key |-> FALSE]
ArgSpace ==
  [key : {None} \cup Keys, connect_best : BOOLEAN, country : {None} \cup Countries,
   fetch_servers : BOOLEAN, info : {None, "s1"}, filter_by : {None, "country"},
   filter : {None} \cup Countries, order_by : {None, "ping"},
   sort_by : {None}, verbose : BOOLEAN, limit : 0..MaxLimit,
   set_access_key : BOOLEAN]

FileNames == {KeyFile} \cup {OvpnFile(i) : i \in ServerIds}

VARIABLES
  system,        \* platform.system()
  pc,            \* the position of the run
  args,          \* the Namespace parse_args() returned
  fs,            \* the working directory: file name -> contents or NoFile
  key_readable,  \* whether openblu.key may be opened for reading
  requests,      \* the POST requests sent, in order
  servers_list,  \* the envelope fetch_servers returned
  server,        \* the selected server (line 174/184/176/186)
  envelope,      \* the envelope get_server_info returned (server, line 152/193)
  received,      \* the servers arrays of the list responses, as received
  rows,          \* the rows added to the PrettyTable
  events,        \* the external effects of the run, in order
  message,       \* the last error message printed
  result         \* how the run ended: [kind, arg]

vars == <<system, pc, args, fs, key_readable, requests, servers_list, server,
          envelope, received, rows, events, message, result>>

Init ==
  /\ system \in Platforms
  /\ pc = "get_platform"
  /\ args = NoArgs
  /\ \E k \in {NoFile, ""} \cup Keys :
       fs = [f \in FileNames |-> IF f = KeyFile THEN k ELSE NoFile]
  /\ key_readable \in BOOLEAN
  /\ (fs[KeyFile] \in {NoFile, ""} => key_readable)
  /\ requests = <<>>
  /\ servers_list = NoEnvelope
  /\ server = Unbound
  /\ envelope = NoGetEnvelope
  /\ received = <<>>
  /\ rows = <<>>
  /\ events = <<>>
  /\ message = None
  /\ result = Running

\* The run ends: exit(), an uncaught exception, or the end of the script.
Finish(r) == pc' = "done" /\ result' = r

\* A plausible slip: only a platform that could not be determined is refused.
platform_determined(s) == s # ""

\* The test of line 263.
platform_supported(s) == s \in SYSTEMS

\* get_platform(), lines 263-266.
get_platform ==
  /\ pc = "get_platform"
  /\ IF ~platform_supported(system)
       THEN /\ message' = "platform unsupported"
            /\ Finish(Exit(StrArg(ERROR_CODES[300])))
       ELSE /\ pc' = "setup_args"
            /\ UNCHANGED <<message, result>>
  /\ UNCHANGED <<system, args, fs, key_readable, requests, servers_list,
                 server, envelope, received, rows, events>>

\* The check of the --filter-by / --filter pair, lines 246-252: the message
\* printed (None when there is none) and whether exit(1) follows it.
filter_message(a) ==
  IF Truthy(a.filter_by)
    THEN IF ~Truthy(a.filter) THEN "--filter-by requires --filter" ELSE None
    ELSE IF Truthy(a.filter) THEN "--filter requires --filter-by" ELSE None

filter_exits(a) == Truthy(a.filter_by) /\ ~Truthy(a.filter)

\* setup_args(), lines 233-253, up to the call of openblu(args).
setup_args ==
  /\ pc = "setup_args"
  /\ \E parsed \in ArgSpace :
       LET is_file == fs[KeyFile] # NoFile
           denied == is_file /\ ~key_readable
           access_key == fs[KeyFile]
           a == IF is_file /\ ~denied /\ Truthy(access_key)
                  THEN [parsed EXCEPT !.key = access_key] ELSE parsed
       IN /\ args' = a
          /\ events' = events \o <<"parse_args">>
                          \o (IF denied THEN <<"open_key_denied">>
                              ELSE IF is_file THEN <<"open_key">> ELSE <<>>)
                          \o (IF denied \/ (is_file /\ ~Truthy(access_key))
                                 \/ filter_exits(a)
                               THEN <<>> ELSE <<"openblu">>)
          /\ IF denied
               THEN /\ message' = "key file permission"
                    /\ Finish(Exit(IntArg(1)))
               ELSE IF is_file /\ ~Truthy(access_key)
               THEN /\ message' = "key file empty"
                    /\ Finish(Exit(IntArg(1)))
               ELSE IF filter_exits(a)
               THEN /\ message' = filter_message(a)
                    /\ Finish(Exit(IntArg(1)))
               ELSE /\ message' = filter_message(a)
                    /\ pc' = "openblu"
                    /\ UNCHANGED result
  /\ UNCHANGED <<system, fs, key_readable, requests, servers_list, server,
                 envelope, received, rows>>

\* The branch of the if/elif chain of openblu(), lines 101, 137, 151, 168.
branch(a) ==
  IF a.fetch_servers THEN "fetch_servers"
  ELSE IF a.set_access_key THEN "set_access_key"
  ELSE IF Truthy(a.info) THEN "info"
  ELSE IF Truthy(a.country) THEN "country"
  ELSE "none"

\* fetch_servers(), lines 73-81: the body of the list request.  Line 75
\* subscripts filter_by, which raises TypeError when filter_by is None.
fetch_raises(filter_by) == filter_by = NoTuple

post_data(filter_by, order_by, sort_by, key) ==
  [access_key |-> key,
   by |-> IF Truthy(filter_by[1]) THEN filter_by[2] ELSE Absent,
   filter |-> IF Truthy(filter_by[1]) THEN filter_by[1] ELSE Absent,
   order_by |-> IF Truthy(order_by) THEN order_by ELSE Absent,
   sort_by |-> IF Truthy(sort_by) THEN sort_by ELSE Absent]

list_request(filter_by, order_by, sort_by, key) ==
  [link |-> "/servers/list", data |-> post_data(filter_by, order_by, sort_by, key)]

\* get_server_info(), lines 34-41: the get request.
get_request(uuid, key) ==
  [link |-> "/servers/get",
   data |-> [access_key |-> key, id |-> uuid]]

\* Lines 41-46 and 82-87: requests.post raises on a transport failure and no
\* handler catches it; on a body that is not JSON the except clause names
\* json.JSONDecoder.JSONDecodeError, which does not exist, so evaluating it
\* raises AttributeError.
call_raises(outcome) ==
  IF outcome = "transport_error" THEN "ConnectionError"
  ELSE IF outcome = "bad_json" THEN "AttributeError"
  ELSE None

\* Removing the element at 0-based index x: list.pop(x).
pop(list, x) == SubSeq(list, 1, x) \o SubSeq(list, x + 2, Len(list))

\* The loop of lines 115-135 from iteration x on: the rows added and what is
\* left of servers_list['servers'].
RECURSIVE render_loop(_, _, _, _)
render_loop(x, limit, servers, table) ==
  IF x >= limit THEN [rows |-> table, servers |-> servers]
  ELSE IF servers = <<>> THEN [rows |-> table, servers |-> servers]
  ELSE IF x >= Len(servers) THEN [rows |-> table, servers |-> servers]
  ELSE render_loop(x + 1, limit, pop(servers, x), Append(table, servers[x + 1]))

\* openblu(), --fetch-servers, lines 101-136.
openblu_fetch_servers ==
  /\ pc = "openblu"
  /\ branch(args) = "fetch_servers"
  /\ LET filter_by == <<args.filter_by, args.filter>>
     IN \E outcome \in Outcomes, env \in ListEnvelopes :
          IF fetch_raises(filter_by)
            THEN /\ Finish(Raised("TypeError"))
                 /\ UNCHANGED <<requests, events, servers_list, received,
                                rows, message>>
            ELSE /\ requests' = Append(requests,
                        list_request(filter_by, args.order_by, args.sort_by, args.key))
                 /\ events' = Append(events, "list")
                 /\ IF call_raises(outcome) # None
                      THEN /\ Finish(Raised(call_raises(outcome)))
                           /\ UNCHANGED <<servers_list, received, rows, message>>
                      ELSE IF ~env.success
                      THEN /\ servers_list' = env
                           /\ received' = Append(received, env.servers)
                           /\ message' = "api error"
                           /\ Finish(Returned)
                           /\ UNCHANGED rows
                      ELSE LET r == render_loop(0, args.limit, env.servers, <<>>)
                           IN /\ servers_list' = [env EXCEPT !.servers = r.servers]
                              /\ received' = Append(received, env.servers)
                              /\ rows' = r.rows
                              /\ Finish(Returned)
                              /\ UNCHANGED message
  /\ UNCHANGED <<system, args, fs, key_readable, server, envelope>>

\* What input() may give at the prompt of line 139.
Inputs == {"<EOF>", ""} \cup Keys

\* openblu(), --set-access-key, lines 137-150.
openblu_set_access_key ==
  /\ pc = "openblu"
  /\ branch(args) = "set_access_key"
  /\ \E access_key \in Inputs, denied \in BOOLEAN :
       IF access_key = "<EOF>"
         THEN /\ Finish(Exit(IntArg(1)))
              /\ UNCHANGED <<fs, events, message>>
       ELSE IF ~Truthy(access_key)
         THEN /\ message' = "access key blank"
              /\ Finish(Exit(IntArg(1)))
              /\ UNCHANGED <<fs, events>>
       ELSE IF denied
         THEN /\ message' = "key file permission"
              /\ events' = Append(events, "write_key_denied")
              /\ Finish(Returned)
              /\ UNCHANGED fs
         ELSE /\ fs' = [fs EXCEPT ![KeyFile] = access_key]
              /\ events' = Append(events, "write_key")
              /\ Finish(Returned)
              /\ UNCHANGED message
  /\ UNCHANGED <<system, args, key_readable, requests, servers_list, server,
                 envelope, received, rows>>

\* Lines 157-158 and 198-199: the file the configuration is written to and
\* the text written.
ovpn_name(env) == OvpnFile(env.server.id)

\* A plausible slip: the wrong field of the envelope is written.
ovpn_text_id(env) == env.server.id

ovpn_text(env) == env.server.ovpn_configuration

\* The message and the exit of lines 162-167 for an unsuccessful envelope
\* under --info: None when no branch is taken.
info_message(env) ==
  IF env.response_code = 404 THEN "server not found"
  ELSE IF env.response_code \notin {200, 404} THEN "api error"
  ELSE None

\* openblu(), --info, lines 151-167.
openblu_info ==
  /\ pc = "openblu"
  /\ branch(args) = "info"
  /\ requests' = Append(requests, get_request(args.info, args.key))
  /\ \E outcome \in Outcomes, env \in GetEnvelopes, denied \in BOOLEAN :
       IF call_raises(outcome) # None
         THEN /\ events' = Append(events, "get")
              /\ Finish(Raised(call_raises(outcome)))
              /\ UNCHANGED <<envelope, fs, message>>
       ELSE IF env.success
         THEN /\ envelope' = env
              /\ IF denied
                   THEN /\ events' = events \o <<"get", "write_ovpn_denied">>
                        /\ message' = "ovpn file permission"
                        /\ Finish(Exit(IntArg(1)))
                        /\ UNCHANGED fs
                   ELSE /\ events' = events \o <<"get", "write_ovpn">>
                        /\ fs' = [fs EXCEPT ![ovpn_name(env)] = ovpn_text(env)]
                        /\ Finish(Returned)
                        /\ UNCHANGED message
         ELSE /\ envelope' = env
              /\ events' = Append(events, "get")
              /\ message' = IF info_message(env) = None THEN message
                             ELSE info_message(env)
              /\ Finish(IF env.response_code = 404 THEN Exit(IntArg(1))
                        ELSE IF env.response_code \notin {200, 404}
                          THEN Exit(StrArg(ERROR_CODES[500]))
                        ELSE Returned)
              /\ UNCHANGED fs
  /\ UNCHANGED <<system, args, key_readable, servers_list, server, received, rows>>

\* max(servers, key=lambda x: x['last_updated']), line 174: one pass that
\* keeps the first element no later element exceeds.
RECURSIVE max_loop(_, _, _)
max_loop(servers, i, best) ==
  IF i > Len(servers) THEN best
  ELSE max_loop(servers, i + 1,
                IF servers[i].last_updated > best.last_updated
                  THEN servers[i] ELSE best)

\* A plausible slip: the comparison the wrong way round, the oldest entry.
select_oldest(servers) ==
  IF servers # <<>>
    THEN servers[CHOOSE i \in 1..Len(servers) :
                   \A j \in 1..Len(servers) :
                     /\ servers[i].last_updated <= servers[j].last_updated
                     /\ (j < i => servers[i].last_updated < servers[j].last_updated)]
    ELSE NoServer

select_best(servers) ==
  IF servers # <<>> THEN max_loop(servers, 2, servers[1]) ELSE NoServer

\* Lines 183-186.
select_first(servers) ==
  IF servers # <<>> THEN servers[1] ELSE NoServer

\* The arguments of the fetch_servers call of the country branch: line 171
\* with --connect-best, line 181 (every parameter but verbose at its default)
\* without.
country_call(a) ==
  IF a.connect_best
    THEN [filter_by |-> <<"country", a.country>>, order_by |-> a.order_by,
          sort_by |-> a.sort_by, key |-> a.key]
    ELSE [filter_by |-> NoTuple, order_by |-> None, sort_by |-> None,
          key |-> None]

\* openblu(), --country, lines 168-189: the list request and the selection.
openblu_country ==
  /\ pc = "openblu"
  /\ branch(args) = "country"
  /\ LET c == country_call(args)
     IN \E outcome \in Outcomes, env \in ListEnvelopes :
          IF fetch_raises(c.filter_by)
            THEN /\ Finish(Raised("TypeError"))
                 /\ UNCHANGED <<requests, events, servers_list, received,
                                server, message>>
            ELSE
              /\ requests' = Append(requests,
                     list_request(c.filter_by, c.order_by, c.sort_by, c.key))
              /\ events' = Append(events, "list")
              /\ IF call_raises(outcome) # None
                   THEN /\ Finish(Raised(call_raises(outcome)))
                        /\ UNCHANGED <<servers_list, received, server, message>>
                   ELSE
                     /\ servers_list' = env
                     /\ received' = Append(received, env.servers)
                     /\ IF env.success
                          THEN LET s == IF args.connect_best
                                          THEN select_best(env.servers)
                                          ELSE select_first(env.servers)
                               IN /\ server' = s
                                  /\ IF s = NoServer
                                       THEN /\ message' = "no server found"
                                            /\ Finish(Returned)
                                       ELSE /\ pc' = "connect_get"
                                            /\ UNCHANGED <<message, result>>
                          ELSE IF args.connect_best
                          THEN /\ message' = "api error"
                               /\ Finish(Exit(StrArg(ERROR_CODES[500])))
                               /\ UNCHANGED server
                          ELSE \* line 187 reads server, never assigned
                               /\ Finish(Raised("UnboundLocalError"))
                               /\ UNCHANGED <<server, message>>
  /\ UNCHANGED <<system, args, fs, key_readable, envelope, rows>>

\* A plausible slip: the handler of PermissionError prints and goes on.
after_write_no_exit(denied) == "connect_spawn"

\* What follows the write of lines 197-202: exit(1) when it was denied, the
\* spawn otherwise.
after_write(denied) == IF denied THEN "exit" ELSE "connect_spawn"

\* openblu(), --country, lines 190-202 and 208-210: the get request and the
\* write of the .ovpn file.
openblu_connect_get ==
  /\ pc = "connect_get"
  /\ requests' = Append(requests, get_request(server.id, args.key))
  /\ \E outcome \in Outcomes, env \in GetEnvelopes, denied \in BOOLEAN :
       IF call_raises(outcome) # None
         THEN /\ events' = Append(events, "get")
              /\ Finish(Raised(call_raises(outcome)))
              /\ UNCHANGED <<envelope, fs, message>>
       ELSE IF env.success
         THEN /\ envelope' = env
              /\ events' = events \o <<"get", IF denied THEN "write_ovpn_denied"
                                                ELSE "write_ovpn">>
              /\ fs' = IF denied THEN fs
                       ELSE [fs EXCEPT ![ovpn_name(env)] = ovpn_text(env)]
              /\ message' = IF denied THEN "ovpn file permission" ELSE message
              /\ IF after_write(denied) = "exit"
                   THEN Finish(Exit(IntArg(1)))
                   ELSE pc' = "connect_spawn" /\ UNCHANGED result
         ELSE /\ envelope' = env
              /\ events' = Append(events, "get")
              /\ message' = "api error"
              /\ Finish(Exit(StrArg(ERROR_CODES[500])))
              /\ UNCHANGED fs
  /\ UNCHANGED <<system, args, key_readable, servers_list, server, received, rows>>

\* openblu(), --country, lines 203-207: the spawn of the OpenVPN process.
\* Line 204 reads server['id'] of the envelope, a KeyError when the envelope
\* has no such key.
openblu_connect_spawn ==
  /\ pc = "connect_spawn"
  /\ IF args.verbose /\ ~envelope.has_id
       THEN /\ Finish(Raised("KeyError"))
            /\ UNCHANGED <<events, message>>
       ELSE \E returncode \in {0, 1} :
              /\ events' = Append(events, "spawn")
              /\ message' = IF returncode # 0 THEN "openvpn exited with error"
                             ELSE message
              /\ Finish(Returned)
  /\ UNCHANGED <<system, args, fs, key_readable, requests, servers_list,
                 server, envelope, received, rows>>

\* openblu() with none of the four intents: no branch is taken.
openblu_none ==
  /\ pc = "openblu"
  /\ branch(args) = "none"
  /\ Finish(Returned)
  /\ UNCHANGED <<system, args, fs, key_readable, requests, servers_list,
                 server, envelope, received, rows, events, message>>

Next ==
  \/ get_platform
  \/ setup_args
  \/ openblu_fetch_servers
  \/ openblu_set_access_key
  \/ openblu_info
  \/ openblu_country
  \/ openblu_connect_get
  \/ openblu_connect_spawn
  \/ openblu_none

Spec == Init /\ [][Next]_vars

\* ------------------------------------------------------------- claims ---
Has(e) == \E i \in 1..Len(events) : events[i] = e
Count(e) == Cardinality({i \in 1..Len(events) : events[i] = e})
Before(e1, e2) ==
  \A j \in 1..Len(events) :
    events[j] = e2 => \E i \in 1..(j - 1) : events[i] = e1
Min(a, b) == IF a < b THEN a ELSE b
Parsed == Has("parse_args")
Dispatched == Has("openblu")

\* C1: when exactly one of --filter-by and --filter is present, in either
\* direction, the run ends with a validation error and exit code 1, without
\* dispatching a command or sending a request.
C1_PartialFilterPairRejected ==
  (Parsed /\ Truthy(args.filter_by) # Truthy(args.filter)) =>
    /\ pc = "done"
    /\ result = Exit(IntArg(1))
    /\ ~Dispatched
    /\ requests = <<>>

\* C2: after a successful list response in the country branch, an empty
\* servers list gives the selection None; with --connect-best a non-empty
\* list gives an element of the list whose last_updated no element exceeds.
C2_BestSelection ==
  (Dispatched /\ branch(args) = "country" /\ servers_list.success) =>
    LET S == received[1]
    IN /\ (S = <<>> => server = NoServer)
       /\ (args.connect_best /\ S # <<>> =>
             /\ \E i \in 1..Len(S) : server = S[i]
             /\ \A j \in 1..Len(S) : S[j].last_updated <= server.last_updated)

C2_Witness ==
  /\ Dispatched /\ branch(args) = "country" /\ args.connect_best
  /\ servers_list.success
  /\ Len(received[1]) >= 2
  /\ server = received[1][2]
  /\ received[1][1].last_updated < server.last_updated

\* C3: in the country branch without --connect-best, once the branch has
\* run, a list request was sent that carries the access key and the chosen
\* country as filter, and a successful non-empty response selects the first
\* element of the returned list.
C3_FirstModeRequest ==
  (Dispatched /\ branch(args) = "country" /\ ~args.connect_best
     /\ pc # "openblu") =>
    /\ requests # <<>>
    /\ requests[1].link = "/servers/list"
    /\ requests[1].data.access_key = args.key
    /\ requests[1].data.filter = "country"
    /\ requests[1].data.by = args.country
    /\ (servers_list.success /\ received[1] # <<>> => server = received[1][1])

\* C4: after a successful list response with servers S under --fetch-servers
\* with limit L, the rows rendered are the first min(L, len(S)) entries of S,
\* in order.
C4_RenderFirstRows ==
  (Dispatched /\ branch(args) = "fetch_servers" /\ servers_list.success) =>
    rows = SubSeq(received[1], 1, Min(args.limit, Len(received[1])))

\* C5: when get_server answers success=false with response_code 404 during a
\* connect, the message is "not found" and not the generic API error, no
\* .ovpn file is written and no process is spawned.
C5_ConnectNotFound ==
  (Dispatched /\ branch(args) = "country" /\ Has("get")
     /\ pc = "done" /\ result.kind # "exception"
     /\ ~envelope.success /\ envelope.response_code = 404) =>
    /\ message = "server not found"
    /\ \A i \in ServerIds : fs[OvpnFile(i)] = NoFile
    /\ ~Has("spawn")

\* C6: the VPN process is spawned at most once, and only after, in this
\* order, a successful list response with a selected server, a successful
\* get_server for that server and a write of the .ovpn file that was not
\* denied; with no selection, a failed get or a denied write there is no
\* spawn.
C6_SpawnOnlyAfterPipeline ==
  /\ Count("spawn") <= 1
  /\ Has("spawn") =>
       /\ Before("list", "get") /\ Before("get", "write_ovpn")
       /\ Before("write_ovpn", "spawn")
       /\ servers_list.success
       /\ server \notin {NoServer, Unbound}
       /\ \E i \in 1..Len(received[1]) : received[1][i] = server
       /\ Len(requests) = 2
       /\ requests[2].link = "/servers/get"
       /\ requests[2].data.id = server.id
       /\ envelope.success
       /\ fs[OvpnFile(envelope.server.id)] # NoFile
  /\ (server = NoServer \/ Has("write_ovpn_denied")
        \/ (Has("get") /\ ~envelope.success)) => ~Has("spawn")

C6_Witness == Has("spawn") /\ pc = "done"

C8_DeniedExitsOne ==
  pc = "done" =>
    /\ (Has("open_key_denied") \/ Has("write_key_denied")
          \/ Has("write_ovpn_denied")) => ExitStatus(result) = 1
    /\ message = "access key blank" =>
          ExitStatus(result) = 1 /\ ~Has("write_key")

\* C9: no run ends in an unhandled exception.
C9_NoUnhandledException ==
  pc = "done" => result.kind # "exception"

\* C10: on a platform outside the supported set the run exits at startup
\* with the platform-invalid code; arguments are never parsed, the key file
\* never opened, no command dispatched and no request sent.
C10_UnsupportedPlatformExits ==
  ~(system \in SYSTEMS) =>
    /\ pc \in {"get_platform", "done"}
    /\ pc = "done" => result = Exit(StrArg("PLATFORM_INVALID"))
    /\ events = <<>>
    /\ requests = <<>>
    /\ args = NoArgs

C10_Witness ==
  system = "Darwin" /\ pc = "done" /\ message = "platform unsupported"

====
